---- MODULE Spec2Model ----
(***************************************************************************)
(* Model of the Smart-Traffic mock ML service (mock_ml_service.py) and of  *)
(* the sample data generator (sample-data-generator.py).                   *)
(*                                                                         *)
(* Confidences are decimal numbers with two places in the source; they are *)
(* kept here as integers counting hundredths (0.85 is 85).  Speeds have    *)
(* one decimal after round(_, 1); they are kept as integers counting       *)
(* tenths of a km/h.  Draws of the random module are inputs of the         *)
(* actions, chosen with \E from the values the draw can produce.           *)
(***************************************************************************)
EXTENDS Integers, Sequences, FiniteSets

VARIABLES pc, op, request, response, calls, obs, steps

vars == <<pc, op, request, response, calls, obs, steps>>

-----------------------------------------------------------------------------
(* Bounds of the model *)

\* hours offered to the service range over -HourSlack .. 23 + HourSlack
HourSlack == 1
\* historicalDataPoints offered to the service range over 0 .. MaxHist
MaxHist == 11
\* random.uniform(-0.05, 0.05) is sampled at JitterGrid + 1 evenly spread points
JitterGrid == 4
\* random.randint / random.uniform of a magnitude are sampled at MagnitudeGrid + 1 points
MagnitudeGrid == 2
\* longest list of requests offered to /batch/predict
MaxBatch == 2

-----------------------------------------------------------------------------
(* Module-level data *)

TRAFFIC_DENSITIES == <<"LOW", "MODERATE", "HIGH", "CRITICAL">>

Densities == {TRAFFIC_DENSITIES[i] : i \in 1..Len(TRAFFIC_DENSITIES)}

\* list.index(d), 0-based as in Python
Index(d) == (CHOOSE i \in 1..Len(TRAFFIC_DENSITIES) : TRAFFIC_DENSITIES[i] = d) - 1

\* TRAFFIC_DENSITIES[i], 0-based as in Python
DensityAt(i) == TRAFFIC_DENSITIES[i + 1]

WEATHER_CONDITIONS == <<"CLEAR", "RAIN", "FOG", "CLOUDY">>

DayNames == {"Monday", "Tuesday", "Wednesday", "Thursday", "Friday", "Saturday", "Sunday"}

\* weather strings a client may send: the generator's conditions and SNOW
ServiceWeather == {"CLEAR", "RAIN", "SNOW", "FOG", "CLOUDY"}

Max(a, b) == IF a >= b THEN a ELSE b

Min(a, b) == IF a <= b THEN a ELSE b

-----------------------------------------------------------------------------
(* predict_traffic, step by step *)

\* rush hours / night time / regular hours
BaseByHour(hour) ==
    IF (7 <= hour /\ hour <= 9) \/ (17 <= hour /\ hour <= 19)
    THEN [prediction |-> "HIGH", confidence |-> 85]
    ELSE IF 22 <= hour \/ hour <= 6
         THEN [prediction |-> "LOW", confidence |-> 80]
         ELSE [prediction |-> "MODERATE", confidence |-> 75]

\* faulty variant: the weekend branch forgets the confidence decrement
DayAdjustNoDecrement(p, day_of_week) ==
    IF day_of_week \in {"Saturday", "Sunday"}
    THEN [prediction |-> IF p.prediction = "HIGH" THEN "MODERATE" ELSE p.prediction,
          confidence |-> p.confidence]
    ELSE p

\* "Adjust for day of week"
DayAdjust(p, day_of_week) ==
    IF day_of_week \in {"Saturday", "Sunday"}
    THEN [prediction |-> IF p.prediction = "HIGH" THEN "MODERATE" ELSE p.prediction,
          confidence |-> p.confidence - 5]
    ELSE p

\* faulty variant: the weather branch also escalates HIGH
WeatherAdjustEscalatesHigh(p, weather) ==
    IF weather \in {"RAIN", "SNOW", "FOG"}
    THEN [prediction |-> CASE p.prediction = "LOW" -> "MODERATE"
                           [] p.prediction = "MODERATE" -> "HIGH"
                           [] p.prediction = "HIGH" -> "CRITICAL"
                           [] OTHER -> p.prediction,
          confidence |-> p.confidence - 10]
    ELSE p

\* "Adjust for weather"
WeatherAdjust(p, weather) ==
    IF weather \in {"RAIN", "SNOW", "FOG"}
    THEN [prediction |-> CASE p.prediction = "LOW" -> "MODERATE"
                           [] p.prediction = "MODERATE" -> "HIGH"
                           [] OTHER -> p.prediction,
          confidence |-> p.confidence - 10]
    ELSE p

\* "Adjust for historical data"
HistoryAdjust(p, historical_data_points) ==
    [prediction |-> p.prediction,
     confidence |-> IF historical_data_points > 10 THEN p.confidence + 5
                    ELSE IF historical_data_points < 3 THEN p.confidence - 10
                    ELSE p.confidence]

\* faulty variant: the jittered confidence is returned without the clamp
FinalConfidenceNoClamp(base_confidence, confidence_adjustment) ==
    base_confidence + confidence_adjustment

\* max(0.5, min(0.95, base_confidence + confidence_adjustment))
FinalConfidence(base_confidence, confidence_adjustment) ==
    Max(50, Min(95, base_confidence + confidence_adjustment))

\* the outcomes of the two random.random() draws of the last step: the first
\* draw is >= 0.2 ("keep"), or it is < 0.2 and the second is < 0.5 ("down")
\* or >= 0.5 ("up")
ReclassifyDraws == {"keep", "down", "up"}

\* faulty variant: the step does nothing when the drawn direction is unavailable
ReclassifyNoOpAtBoundary(base_prediction, draw) ==
    IF draw = "keep" THEN base_prediction
    ELSE LET current_index == Index(base_prediction)
         IN IF draw = "down"
            THEN (IF current_index > 0 THEN DensityAt(current_index - 1) ELSE base_prediction)
            ELSE (IF current_index < Len(TRAFFIC_DENSITIES) - 1
                  THEN DensityAt(current_index + 1) ELSE base_prediction)

\* "Occasionally change prediction for realism"
Reclassify(base_prediction, draw) ==
    IF draw = "keep" THEN base_prediction
    ELSE LET current_index == Index(base_prediction)
         IN IF draw = "down" /\ current_index > 0
            THEN DensityAt(current_index - 1)
            ELSE IF current_index < Len(TRAFFIC_DENSITIES) - 1
                 THEN DensityAt(current_index + 1)
                 ELSE base_prediction

\* the values random.uniform(-0.05, 0.05) is sampled at, in hundredths
JitterValues == {((10 * k) \div JitterGrid) - 5 : k \in 0..JitterGrid}

\* the random draws of one predict_traffic call
PredictDraws == [adjustment : JitterValues, reclassify : ReclassifyDraws]

\* predict_traffic: the returned pair (prediction, confidence) together with
\* the arguments and the value of base_prediction / base_confidence after
\* each step
predict_traffic(hour, day_of_week, weather, historical_data_points, draws) ==
    LET base    == BaseByHour(hour)
        day     == DayAdjust(base, day_of_week)
        wth     == WeatherAdjust(day, weather)
        hist    == HistoryAdjust(wth, historical_data_points)
    IN [hour |-> hour, day_of_week |-> day_of_week, weather |-> weather,
        historical_data_points |-> historical_data_points, draws |-> draws,
        base |-> base, after_day |-> day, after_weather |-> wth, after_history |-> hist,
        confidence |-> FinalConfidence(hist.confidence, draws.adjustment),
        prediction |-> Reclassify(hist.prediction, draws.reclassify)]

-----------------------------------------------------------------------------
(* Requests: a JSON object is a function from the keys it holds to values *)

\* dict.get(key, default)
Get(data, key, default) == IF key \in DOMAIN data THEN data[key] ELSE default

\* a JSON object holding the keys S of a prediction request; lat and lon are
\* in units of 0.0001 degree
MkRequest(S, hour, day_of_week, weather, historical_data_points, id) ==
    [f \in S |-> CASE f = "lat" -> 165062
                   [] f = "lon" -> 806480
                   [] f = "hour" -> hour
                   [] f = "dayOfWeek" -> day_of_week
                   [] f = "weather" -> weather
                   [] f = "historicalDataPoints" -> historical_data_points
                   [] f = "id" -> id]

Hours == (0 - HourSlack)..(23 + HourSlack)

HistValues == 0..MaxHist

RequiredKeys == {"lat", "lon", "hour", "dayOfWeek"}

OptionalKeys == {"weather", "historicalDataPoints"}

\* well-formed bodies of POST /predict: all required keys, any optional ones
CompleteRequests ==
    UNION {{MkRequest(RequiredKeys \cup {"weather", "historicalDataPoints"}, h, d, w, n, 0) :
              h \in Hours, d \in DayNames, w \in ServiceWeather, n \in HistValues},
           {MkRequest(RequiredKeys \cup {"weather"}, h, d, w, 0, 0) :
              h \in Hours, d \in DayNames, w \in ServiceWeather},
           {MkRequest(RequiredKeys \cup {"historicalDataPoints"}, h, d, "CLEAR", n, 0) :
              h \in Hours, d \in DayNames, n \in HistValues},
           {MkRequest(RequiredKeys, h, d, "CLEAR", 0, 0) :
              h \in Hours, d \in DayNames}}

\* bodies of POST /predict that lack at least one required key
PartialRequests ==
    {MkRequest(S, 8, "Monday", "RAIN", 5, 0) :
       S \in {T \in SUBSET (RequiredKeys \cup OptionalKeys) : ~(RequiredKeys \subseteq T)}}

-----------------------------------------------------------------------------
(* POST /predict *)

\* faulty variant: hour is left out of the validated fields
required_fields_without_hour == <<"lat", "lon", "dayOfWeek">>

required_fields == <<"lat", "lon", "hour", "dayOfWeek">>

\* positions of the required fields that data lacks
MissingAt(data) == {i \in 1..Len(required_fields) : required_fields[i] \notin DOMAIN data}

\* the field the validation loop stops at
FirstMissing(data) ==
    required_fields[CHOOSE i \in MissingAt(data) : \A j \in MissingAt(data) : i <= j]

\* the handler's result: the response and the predict_traffic calls it made
predict(data, draws) ==
    IF MissingAt(data) # {}
    THEN [response |-> [status |-> 400,
                        error |-> "Missing required field: " \o FirstMissing(data)],
          calls |-> <<>>]
    ELSE IF ~({"lat", "lon", "hour", "dayOfWeek"} \subseteq DOMAIN data)
    THEN \* data[...] raises KeyError, caught by "except Exception"
         [response |-> [status |-> 500, error |-> "Internal server error"],
          calls |-> <<>>]
    ELSE LET weather == Get(data, "weather", "CLEAR")
             historical_data_points == Get(data, "historicalDataPoints", 0)
             r == predict_traffic(data["hour"], data["dayOfWeek"], weather,
                                  historical_data_points, draws)
         IN [response |-> [status |-> 200,
                           prediction |-> r.prediction,
                           confidence |-> r.confidence,
                           model_version |-> "v1.2.3",
                           features_used |->
                               [coordinates |-> <<data["lat"], data["lon"]>>,
                                temporal |-> [hour |-> data["hour"],
                                              day_of_week |-> data["dayOfWeek"]],
                                weather |-> weather,
                                historical_data_points |-> historical_data_points]],
             calls |-> <<r>>]

NoObservation == [location |-> "none"]

NoResponse == [status |-> 0]

\* POST /predict handled from the request's arrival to its response
Predict ==
    /\ pc = "pending"
    /\ op = "predict"
    /\ \E draws \in PredictDraws :
        LET r == predict(request, draws)
        IN /\ response' = r.response
           /\ calls' = r.calls
    /\ pc' = "done"
    /\ UNCHANGED <<op, request, obs, steps>>

-----------------------------------------------------------------------------
(* POST /batch/predict *)

ClientIds == {0, 7}

\* hours sent in batch items: a rush hour and the first hour past the offered range
BatchHours == {8, 23 + HourSlack}

\* items of a batch: with every required key, without lat, or without hour,
\* each with or without a client-supplied id
BatchItems ==
    UNION {{MkRequest(S \cup I, h, "Monday", "CLEAR", 0, id) :
              S \in {RequiredKeys, RequiredKeys \ {"lat"}}, I \in {{}, {"id"}},
              h \in BatchHours, id \in ClientIds},
           {MkRequest((RequiredKeys \ {"hour"}) \cup I, 8, "Monday", "CLEAR", 0, id) :
              I \in {{}, {"id"}}, id \in ClientIds}}

\* the lists of at most n batch items
RECURSIVE ItemLists(_)
ItemLists(n) ==
    IF n = 0 THEN {<<>>}
    ELSE LET shorter == ItemLists(n - 1)
         IN shorter \cup {Append(l, item) : l \in {x \in shorter : Len(x) = n - 1},
                                              item \in BatchItems}

\* bodies of POST /batch/predict: with a list under "requests", or without the key
BatchBodies == {[k \in {"requests"} |-> l] : l \in ItemLists(MaxBatch)} \cup {<<>>}

\* the draws offered to the predict_traffic call of one batch item
BatchDraws == {[adjustment |-> 0, reclassify |-> "keep"],
               [adjustment |-> 5, reclassify |-> "up"]}

\* faulty variant: the default id counts the item being appended
ResultIdOneBased(req, results) == Get(req, "id", Len(results) + 1)

\* req.get('id', len(results))
ResultId(req, results) == Get(req, "id", Len(results))

\* the for loop of batch_predict from item i on; made lists the
\* predict_traffic calls so far
RECURSIVE BatchLoop(_, _, _, _, _)
BatchLoop(requests, draws, i, results, made) ==
    IF i > Len(requests)
    THEN [response |-> [status |-> 200, results |-> results,
                        total_predictions |-> Len(results)],
          calls |-> made]
    ELSE LET req == requests[i]
         IN IF ~({"lat", "lon", "hour", "dayOfWeek"} \subseteq DOMAIN req)
            THEN \* req[...] raises KeyError, caught by "except Exception"
                 [response |-> [status |-> 500, error |-> "Batch prediction failed"],
                  calls |-> made]
            ELSE LET r == predict_traffic(req["hour"], req["dayOfWeek"],
                                          Get(req, "weather", "CLEAR"),
                                          Get(req, "historicalDataPoints", 0), draws[i])
                 IN BatchLoop(requests, draws, i + 1,
                              Append(results, [id |-> ResultId(req, results),
                                               prediction |-> r.prediction,
                                               confidence |-> r.confidence]),
                              Append(made, r))

batch_predict(data, draws) ==
    LET requests == Get(data, "requests", <<>>)
    IN IF requests = <<>>
       THEN [response |-> [status |-> 400, error |-> "No prediction requests provided"],
             calls |-> <<>>]
       ELSE BatchLoop(requests, draws, 1, <<>>, <<>>)

\* POST /batch/predict handled from the request's arrival to its response
BatchPredict ==
    /\ pc = "pending"
    /\ op = "batch"
    /\ \E draws \in [1..Len(Get(request, "requests", <<>>)) -> BatchDraws] :
        LET r == batch_predict(request, draws)
        IN /\ response' = r.response
           /\ calls' = r.calls
    /\ pc' = "done"
    /\ UNCHANGED <<op, request, obs, steps>>

-----------------------------------------------------------------------------
(* sample-data-generator.py: generate_traffic_data *)

\* two of the CITIES locations; lat and lon are in units of 0.0001 degree
Locations == {[name |-> "Vijayawada Junction", lat |-> 165062, lon |-> 806480],
              [name |-> "Silk Board Junction", lat |-> 129176, lon |-> 776227]}

\* a timestamp is kept as its weekday() (Monday = 0) and its hour
Timestamps == [weekday : 0..6, hour : 0..23]

\* the weights random.choices is given for the hour
HourWeights(hour) ==
    IF (7 <= hour /\ hour <= 9) \/ (17 <= hour /\ hour <= 19)
    THEN <<5, 15, 50, 30>>
    ELSE IF 22 <= hour \/ hour <= 6
         THEN <<70, 25, 5, 0>>
         ELSE <<20, 50, 25, 5>>

\* the densities random.choices can return: those of positive weight
generate_traffic_density_by_hour(hour) ==
    {TRAFFIC_DENSITIES[i] : i \in {j \in 1..Len(TRAFFIC_DENSITIES) : HourWeights(hour)[j] > 0}}

density_ranges(density) ==
    CASE density = "LOW" -> <<5, 20>>
      [] density = "MODERATE" -> <<21, 50>>
      [] density = "HIGH" -> <<51, 80>>
      [] density = "CRITICAL" -> <<81, 120>>

\* the ranges of speed_ranges, in tenths of a km/h
speed_ranges(density) ==
    CASE density = "LOW" -> <<400, 600>>
      [] density = "MODERATE" -> <<200, 400>>
      [] density = "HIGH" -> <<100, 250>>
      [] density = "CRITICAL" -> <<20, 150>>

\* the k-th of the MagnitudeGrid + 1 sample points of the interval lo..hi
SamplePoint(lo, hi, k) == lo + ((k * (hi - lo)) \div MagnitudeGrid)

\* random.randint(min_count, max_count), sampled
generate_vehicle_count(density, k) ==
    SamplePoint(density_ranges(density)[1], density_ranges(density)[2], k)

\* round(random.uniform(min_speed, max_speed), 1) in tenths, sampled
generate_average_speed(density, k) ==
    SamplePoint(speed_ranges(density)[1], speed_ranges(density)[2], k)

\* faulty variant: Saturday is not taken for a weekend day
WeekendAdjustmentSundayOnly(density, weekday, coin) ==
    IF weekday > 5
    THEN IF density = "CRITICAL" THEN "HIGH"
         ELSE IF density = "HIGH" /\ coin THEN "MODERATE"
         ELSE density
    ELSE density

\* "Weekend adjustment"; coin is random.random() < 0.5
WeekendAdjustment(density, weekday, coin) ==
    IF weekday >= 5
    THEN IF density = "CRITICAL" THEN "HIGH"
         ELSE IF density = "HIGH" /\ coin THEN "MODERATE"
         ELSE density
    ELSE density

\* "Weather impact"; coin is random.random() < 0.3
WeatherImpact(density, weather, coin) ==
    IF weather \in {"RAIN", "FOG"}
    THEN IF density = "LOW" THEN "MODERATE"
         ELSE IF density = "MODERATE" /\ coin THEN "HIGH"
         ELSE density
    ELSE density

\* the uniform(-0.001, 0.001) variation of a coordinate, at its two ends
CoordinateJitter == {-10, 10}

\* the random draws of one generate_traffic_data call
GeneratorDraws ==
    [density : Densities, weekend_coin : BOOLEAN,
     weather : {WEATHER_CONDITIONS[i] : i \in 1..Len(WEATHER_CONDITIONS)},
     weather_coin : BOOLEAN, lat : CoordinateJitter, lon : CoordinateJitter,
     count : 0..MagnitudeGrid, speed : 0..MagnitudeGrid]

\* faulty variant: the magnitudes are drawn for the density of the hour-band draw
generate_traffic_data_early_magnitudes(location, timestamp, draws) ==
    LET initial == draws.density
        weekend == WeekendAdjustment(initial, timestamp.weekday, draws.weekend_coin)
        density == WeatherImpact(weekend, draws.weather, draws.weather_coin)
    IN [observation |->
            [location |-> location.name,
             latitude |-> location.lat + draws.lat,
             longitude |-> location.lon + draws.lon,
             trafficDensity |-> density,
             timestamp |-> timestamp,
             vehicleCount |-> generate_vehicle_count(initial, draws.count),
             averageSpeed |-> generate_average_speed(initial, draws.speed),
             weatherCondition |-> draws.weather],
        steps |-> [initial |-> initial, after_weekend |-> weekend,
                   after_weather |-> density]]

\* generate_traffic_data: the returned observation, and the value of the
\* local variable density after each step
generate_traffic_data(location, timestamp, draws) ==
    LET initial == draws.density
        weekend == WeekendAdjustment(initial, timestamp.weekday, draws.weekend_coin)
        density == WeatherImpact(weekend, draws.weather, draws.weather_coin)
    IN [observation |->
            [location |-> location.name,
             latitude |-> location.lat + draws.lat,
             longitude |-> location.lon + draws.lon,
             trafficDensity |-> density,
             timestamp |-> timestamp,
             vehicleCount |-> generate_vehicle_count(density, draws.count),
             averageSpeed |-> generate_average_speed(density, draws.speed),
             weatherCondition |-> draws.weather],
        steps |-> [initial |-> initial, after_weekend |-> weekend,
                   after_weather |-> density]]

NoSteps == [initial |-> "none"]

\* one call generate_traffic_data(location, timestamp)
GenerateTrafficData ==
    /\ pc = "pending"
    /\ op = "generate"
    /\ \E draws \in GeneratorDraws :
        /\ draws.density \in generate_traffic_density_by_hour(request.timestamp.hour)
        /\ LET r == generate_traffic_data(request.location, request.timestamp, draws)
           IN /\ obs' = r.observation
              /\ steps' = r.steps
    /\ pc' = "done"
    /\ UNCHANGED <<op, request, response, calls>>

-----------------------------------------------------------------------------
(* One request, or one call of the generator, is pending at the start *)

Init ==
    /\ pc = "pending"
    /\ \/ op = "predict" /\ request \in CompleteRequests \cup PartialRequests
       \/ op = "batch" /\ request \in BatchBodies
       \/ op = "generate" /\ request \in [location : Locations, timestamp : Timestamps]
    /\ response = NoResponse
    /\ calls = <<>>
    /\ obs = NoObservation
    /\ steps = NoSteps

Next == Predict \/ BatchPredict \/ GenerateTrafficData

Spec == Init /\ [][Next]_vars

-----------------------------------------------------------------------------
(* Properties *)

PredictDone == pc = "done" /\ op = "predict"

BatchDone == pc = "done" /\ op = "batch"

GenerateDone == pc = "done" /\ op = "generate"

\* the predict_traffic calls made with a valid context
ValidCalls ==
    {i \in 1..Len(calls) : calls[i].hour \in 0..23 /\ calls[i].historical_data_points >= 0}

\* Severity order of the densities
Severity(d) == Index(d)

Adverse(weather) == weather \in {"RAIN", "SNOW", "FOG"}

RushHour(hour) == (7 <= hour /\ hour <= 9) \/ (17 <= hour /\ hour <= 19)

Weekend(day_of_week) == day_of_week \in {"Saturday", "Sunday"}

\* C1: for every valid context and every jitter drawn in [-0.05, 0.05], the
\* confidence predict_traffic returns lies in [0.5, 0.95].
C1_ConfidenceBounded ==
    \A i \in ValidCalls : 50 <= calls[i].confidence /\ calls[i].confidence <= 95

\* a valid call whose jittered confidence fell below 0.5 and was returned as 0.5
C1_Witness ==
    \E i \in ValidCalls :
        /\ calls[i].after_history.confidence + calls[i].draws.adjustment < 50
        /\ calls[i].confidence = 50

\* C2 as stated, for valid contexts: a triggered re-classification moves the
\* density one step in the drawn direction, and leaves it alone when that
\* direction is unavailable (down at LOW stays LOW, up at CRITICAL stays
\* CRITICAL).
C2_NoOpAtBoundary ==
    \A i \in ValidCalls :
        LET before == calls[i].after_history.prediction
            after == calls[i].prediction
        IN /\ calls[i].draws.reclassify = "down" =>
                after = (IF before = "LOW" THEN "LOW" ELSE DensityAt(Index(before) - 1))
           /\ calls[i].draws.reclassify = "up" =>
                after = (IF before = "CRITICAL" THEN "CRITICAL"
                         ELSE DensityAt(Index(before) + 1))

\* C2 amended: a triggered re-classification moves the density one step down
\* when down is drawn and the density is not LOW; in every other case it moves
\* it one step up unless it is CRITICAL, so that down drawn at LOW gives
\* MODERATE; the density stays only at CRITICAL with up drawn.
C2_FallsThroughToUp ==
    \A i \in 1..Len(calls) :
        LET before == calls[i].after_history.prediction
            after == calls[i].prediction
        IN /\ (calls[i].draws.reclassify = "down" /\ before # "LOW") =>
                Severity(after) = Severity(before) - 1
           /\ (calls[i].draws.reclassify = "down" /\ before = "LOW") =>
                after = "MODERATE"
           /\ (calls[i].draws.reclassify = "up" /\ before # "CRITICAL") =>
                Severity(after) = Severity(before) + 1
           /\ (calls[i].draws.reclassify = "up" /\ before = "CRITICAL") =>
                after = "CRITICAL"

\* down was drawn at LOW and the call returned MODERATE
C2_Witness ==
    \E i \in 1..Len(calls) :
        /\ calls[i].draws.reclassify = "down"
        /\ calls[i].after_history.prediction = "LOW"
        /\ calls[i].prediction = "MODERATE"

\* the items of the pending or handled batch
BatchRequests == Get(request, "requests", <<>>)

WellFormed(req) == RequiredKeys \subseteq DOMAIN req

\* C3: in batch_predict an item whose processing fails is reported for that
\* item only: every well-formed item of the batch, before or after a failing
\* one, still gets its own result, at its own position of a results list
\* that has one entry per item.
C3_ItemFailureIsolated ==
    (BatchDone /\ BatchRequests # <<>>) =>
        \A i \in 1..Len(BatchRequests) :
            WellFormed(BatchRequests[i]) =>
                /\ "results" \in DOMAIN response
                /\ Len(response.results) = Len(BatchRequests)
                /\ "prediction" \in DOMAIN response.results[i]

\* C4: a request whose hour is outside 0..23 is rejected with a client error
\* before the classifier runs: predict_traffic is never called with such an
\* hour, by /predict or by /batch/predict.
C4_HourValidated ==
    /\ \A i \in 1..Len(calls) : calls[i].hour \in 0..23
    /\ (PredictDone /\ "hour" \in DOMAIN request /\ request["hour"] \notin 0..23) =>
          response.status = 400

\* C5: /predict answers a request lacking one of lat, lon, hour, dayOfWeek
\* with status 400 and a message naming a field the request lacks, without
\* calling predict_traffic; a request holding the four is not rejected, and
\* predict_traffic gets CLEAR for a missing weather and 0 for a missing
\* historicalDataPoints.
C5_RequiredFieldsValidated ==
    PredictDone =>
        IF RequiredKeys \subseteq DOMAIN request
        THEN /\ response.status = 200
             /\ Len(calls) = 1
             /\ calls[1].weather =
                  (IF "weather" \in DOMAIN request THEN request["weather"] ELSE "CLEAR")
             /\ calls[1].historical_data_points =
                  (IF "historicalDataPoints" \in DOMAIN request
                   THEN request["historicalDataPoints"] ELSE 0)
        ELSE /\ response.status = 400
             /\ \E f \in RequiredKeys \ DOMAIN request :
                   response.error = "Missing required field: " \o f
             /\ calls = <<>>

\* a request without hour, holding the other required fields, was rejected
C5_Witness ==
    /\ PredictDone
    /\ DOMAIN request \cap RequiredKeys = RequiredKeys \ {"hour"}
    /\ response.status = 400
    /\ calls = <<>>

\* C6: for a non-empty batch of well-formed items, batch_predict returns one
\* result per item in input order, total_predictions is the number of items,
\* and the i-th result's id is the item's id when it has one and its 0-based
\* position otherwise.
C6_OneResultPerItemInOrder ==
    (BatchDone /\ BatchRequests # <<>>
       /\ \A i \in 1..Len(BatchRequests) : WellFormed(BatchRequests[i])) =>
        /\ response.status = 200
        /\ Len(response.results) = Len(BatchRequests)
        /\ response.total_predictions = Len(BatchRequests)
        /\ Len(calls) = Len(BatchRequests)
        /\ \A i \in 1..Len(BatchRequests) :
              /\ response.results[i].id =
                   (IF "id" \in DOMAIN BatchRequests[i] THEN BatchRequests[i]["id"]
                    ELSE i - 1)
              /\ calls[i].hour = BatchRequests[i]["hour"]
              /\ response.results[i].prediction = calls[i].prediction
              /\ response.results[i].confidence = calls[i].confidence

\* a batch of two well-formed items, the first with an id and the second
\* without, was answered
C6_Witness ==
    /\ BatchDone
    /\ Len(BatchRequests) >= 2
    /\ \A i \in 1..Len(BatchRequests) : WellFormed(BatchRequests[i])
    /\ "id" \in DOMAIN BatchRequests[1]
    /\ "id" \notin DOMAIN BatchRequests[2]
    /\ response.status = 200
    /\ response.results[2].id = 1

\* the confidence before jitter of the same call on a weekday
WeekdayConfidence(c) ==
    predict_traffic(c.hour, "Monday", c.weather, c.historical_data_points,
                    c.draws).after_history.confidence

\* C7 as stated: on Saturday or Sunday, with a rush hour, any weather and any
\* history count, the density before jitter and re-classification is
\* MODERATE; and on every weekend context the confidence before jitter is
\* 0.05 below that of the same context on a weekday.
C7_WeekendModerateAnyWeather ==
    \A i \in ValidCalls :
        Weekend(calls[i].day_of_week) =>
            /\ RushHour(calls[i].hour) => calls[i].after_history.prediction = "MODERATE"
            /\ calls[i].after_history.confidence = WeekdayConfidence(calls[i]) - 5

\* C7 amended: on Saturday or Sunday with a rush hour the density after the
\* day-of-week step is MODERATE; before jitter and re-classification it is
\* MODERATE under weather other than RAIN, SNOW, FOG and HIGH under these;
\* on every weekend context the confidence before jitter is 0.05 below that
\* of the same context on a weekday.
C7_WeekendModerateUnlessAdverse ==
    \A i \in ValidCalls :
        Weekend(calls[i].day_of_week) =>
            /\ RushHour(calls[i].hour) =>
                  /\ calls[i].base.prediction = "HIGH"
                  /\ calls[i].after_day.prediction = "MODERATE"
                  /\ calls[i].after_history.prediction =
                       (IF Adverse(calls[i].weather) THEN "HIGH" ELSE "MODERATE")
            /\ calls[i].after_history.confidence = WeekdayConfidence(calls[i]) - 5

\* a weekend rush-hour call under adverse weather: de-escalated by the day,
\* escalated again by the weather
C7_Witness ==
    \E i \in ValidCalls :
        /\ Weekend(calls[i].day_of_week)
        /\ RushHour(calls[i].hour)
        /\ Adverse(calls[i].weather)
        /\ calls[i].after_day.prediction = "MODERATE"
        /\ calls[i].after_history.prediction = "HIGH"
        /\ calls[i].after_history.confidence = WeekdayConfidence(calls[i]) - 5

\* the weather step took density before to density after: never lower, at
\* most one level higher, HIGH and CRITICAL kept, and nothing changed unless
\* the weather is adverse
OnlyEscalates(before, after, adverse) ==
    /\ Severity(after) >= Severity(before)
    /\ Severity(after) <= Severity(before) + 1
    /\ before \in {"HIGH", "CRITICAL"} => after = before
    /\ ~adverse => after = before

\* C8: the weather adjustment only escalates, in predict_traffic (adverse is
\* RAIN, SNOW, FOG) and in generate_traffic_data (adverse is RAIN, FOG).
C8_WeatherOnlyEscalates ==
    /\ \A i \in 1..Len(calls) :
          OnlyEscalates(calls[i].after_day.prediction, calls[i].after_weather.prediction,
                        calls[i].weather \in {"RAIN", "SNOW", "FOG"})
    /\ GenerateDone =>
          OnlyEscalates(steps.after_weekend, steps.after_weather,
                        obs.weatherCondition \in {"RAIN", "FOG"})

\* the generator drew adverse weather on a LOW density, which became MODERATE
C8_Witness ==
    /\ GenerateDone
    /\ obs.weatherCondition \in {"RAIN", "FOG"}
    /\ steps.after_weekend = "LOW"
    /\ steps.after_weather = "MODERATE"

\* C9: in every observation of generate_traffic_data, vehicleCount and
\* averageSpeed lie in the table ranges of the trafficDensity of that same
\* observation (LOW 5-20 / 40-60, MODERATE 21-50 / 20-40, HIGH 51-80 / 10-25,
\* CRITICAL 81-120 / 2-15).
C9_MagnitudesMatchFinalDensity ==
    GenerateDone =>
        LET count == CASE obs.trafficDensity = "LOW" -> <<5, 20>>
                       [] obs.trafficDensity = "MODERATE" -> <<21, 50>>
                       [] obs.trafficDensity = "HIGH" -> <<51, 80>>
                       [] obs.trafficDensity = "CRITICAL" -> <<81, 120>>
            speed == CASE obs.trafficDensity = "LOW" -> <<400, 600>>
                       [] obs.trafficDensity = "MODERATE" -> <<200, 400>>
                       [] obs.trafficDensity = "HIGH" -> <<100, 250>>
                       [] obs.trafficDensity = "CRITICAL" -> <<20, 150>>
        IN /\ count[1] <= obs.vehicleCount /\ obs.vehicleCount <= count[2]
           /\ speed[1] <= obs.averageSpeed /\ obs.averageSpeed <= speed[2]

\* an observation whose density the weekend step lowered from CRITICAL to
\* HIGH, with the largest HIGH count
C9_Witness ==
    /\ GenerateDone
    /\ steps.initial = "CRITICAL"
    /\ obs.trafficDensity = "HIGH"
    /\ obs.vehicleCount = 80

\* C10: the observation generate_traffic_data returns for a Saturday or
\* Sunday timestamp never has trafficDensity CRITICAL.
C10_NoCriticalOnWeekend ==
    (GenerateDone /\ request.timestamp.weekday \in {5, 6}) =>
        obs.trafficDensity # "CRITICAL"

\* a Saturday draw of CRITICAL came out as HIGH under adverse weather
C10_Witness ==
    /\ GenerateDone
    /\ request.timestamp.weekday = 5
    /\ steps.initial = "CRITICAL"
    /\ obs.weatherCondition \in {"RAIN", "FOG"}
    /\ obs.trafficDensity = "HIGH"

====
